---- MODULE Spec2Model ----
(***************************************************************************)
(* Model of AmigaCatalog (src/AmigaCatalog.cpp): the constructor's ordered *)
(* probe of three candidate catalog files, the IFF "FORM/CTLG" reader      *)
(* ReadFromFile with its top-level chunk loop and its STRS sub-loop, and   *)
(* the factory Instantiate.                                                *)
(*                                                                         *)
(* Files are sequences of bytes (0..255).  Reads are modelled as the code  *)
(* issues them: BFile::Read / BMemoryIO::Read deliver at most the bytes    *)
(* that are left, their return value is ignored by the code, and whatever  *)
(* part of the destination was not filled stays uninitialized.  An         *)
(* uninitialized byte is a nondeterministic choice from GarbageBytes.      *)
(***************************************************************************)
EXTENDS Integers, Sequences, FiniteSets, TLC

VARIABLES
    cpc,            \* position in the constructor / Instantiate
    rpc,            \* position in ReadFromFile
    cand,           \* candidate path being read: 0 none, 1 app, 2 user, 3 system
    attempted,      \* candidates handed to ReadFromFile so far, in order
    statuses,       \* what each of those attempts returned: [cand, st, line]
    status,         \* the constructor's local `status`
    file,           \* bytes of the file opened by the current attempt
    pos,            \* read position of `source`
    dataSize,       \* remaining byte budget (int32)
    declSize,       \* chunk size as declared in the chunk header (before rounding)
    chunkSize,      \* chunk size after "round to word"
    chunkData,      \* the bytes source.Read put into chunkData
    chunkNull,      \* chunkData is a NULL buffer (allocation failed)
    spos,           \* strings.Position()
    iter,           \* top-level loop iterations of the current attempt
    siter,          \* STRS loop iterations of the current chunk
    setLog,         \* every SetString call: [cand, id, text]
    fPath,          \* stored source path (0 = still the constructor's value)
    fFingerprint,   \* cached fingerprint
    fpLog,          \* every ComputeFingerprint call: [cand, rpc, entries]
    fSignature,
    fLanguageName,
    fInitCheck,
    result,         \* what Instantiate returned
    lastChunk,      \* record of the last top-level iteration
    lastEntry,      \* record of the last STRS iteration
    shortRead       \* a declared size of this attempt exceeded the bytes left

vars == <<cpc, rpc, cand, attempted, statuses, status, file, pos, dataSize,
          declSize, chunkSize, chunkData, chunkNull, spos, iter, siter, setLog,
          fPath, fFingerprint, fpLog, fSignature, fLanguageName, fInitCheck,
          result, lastChunk, lastEntry, shortRead>>

----------------------------------------------------------------------------
(* Bounds of the model *)

MaxChunks == 2      \* chunks in a generated file
MaxCut == 1         \* bytes cut from the end of a generated file
MaxIter == 4        \* loop iterations followed per loop

----------------------------------------------------------------------------
(* Bytes, tags and big-endian words *)

Min(a, b) == IF a < b THEN a ELSE b
Max(a, b) == IF a > b THEN a ELSE b

tagFORM == <<70, 79, 82, 77>>
tagCTLG == <<67, 84, 76, 71>>
tagFVER == <<70, 86, 69, 82>>
tagLANG == <<76, 65, 78, 71>>
tagSTRS == <<83, 84, 82, 83>>
tagCSET == <<67, 83, 69, 84>>
tagILBM == <<73, 76, 66, 77>>
tagRIFF == <<82, 73, 70, 70>>
tagNAME == <<78, 65, 77, 69>>

\* Values an uninitialized byte may hold.
GarbageBytes == {0, 255}

\* ntohl() of four bytes of memory, stored into an int32.
Ntohl(b) ==
    (IF b[1] >= 128 THEN b[1] - 256 ELSE b[1]) * 16777216
        + b[2] * 65536 + b[3] * 256 + b[4]

\* Read(&word, 4) delivered the bytes `got` (0..4 of them); the rest of the
\* word keeps uninitialized bytes, each holding g.
FillWord(got, g) == [i \in 1..4 |-> IF i <= Len(got) THEN got[i] ELSE g]

\* BPositionIO::Read(buffer, n) at offset p of `bytes`: the bytes delivered.
ReadAt(bytes, p, n) ==
    IF n <= 0 \/ p >= Len(bytes) THEN <<>>
    ELSE SubSeq(bytes, p + 1, Min(p + n, Len(bytes)))

\* "Round to word": if (chunkSize & 1) chunkSize++
RoundToWord(n) == IF n % 2 = 1 THEN n + 1 ELSE n

\* if (strLen & 3) { strLen &= ~3; strLen += 4; }
AlignLen(n) == IF n % 4 # 0 THEN (n - (n % 4)) + 4 ELSE n

----------------------------------------------------------------------------
(* The files the environment may hold at a candidate path.  They are built *)
(* in the layout ReadFromFile parses: "FORM" size "CTLG" chunk*, a chunk   *)
(* being tag, size, payload, and a STRS payload being entries of id,       *)
(* length, text.                                                           *)

\* The four bytes Ntohl reads back as n (two's complement, big-endian).
BEWord(n) ==
    <<(n \div 16777216) % 256, (n \div 65536) % 256, (n \div 256) % 256, n % 256>>

Chunk(tag, d, payload) == tag \o BEWord(d) \o payload
Entry(id, len, payload) == BEWord(id) \o BEWord(len) \o payload

eText  == Entry(1, 4, <<72, 105, 0, 0>>)
eMenu  == Entry(2, 4, <<65, 0, 66, 67>>)
eSeven == Entry(3, 7, <<79, 112, 101, 110, 46, 46, 46, 0>>)
eEmpty == Entry(4, 0, <<>>)
eLatin == Entry(5, 3, <<233, 116, 233, 0>>)
eDup   == Entry(1, 2, <<89, 111, 0, 0>>)
eNeg   == Entry(6, -16, <<>>)

ChunkSet ==
    { Chunk(tagFVER, 3, <<65, 66, 0, 0>>),
      Chunk(tagLANG, 2, <<102, 114>>),
      Chunk(tagNAME, 5, <<1, 2, 3, 4, 5, 0>>),
      Chunk(tagCSET, -16, <<>>),
      Chunk(tagSTRS, Len(eMenu \o eSeven \o eDup), eMenu \o eSeven \o eDup),
      Chunk(tagSTRS, Len(eEmpty \o eLatin \o eNeg), eEmpty \o eLatin \o eNeg),
      Chunk(tagSTRS, Len(eText) + 1, eText \o <<7, 0>>) }

RECURSIVE Flatten(_)
Flatten(ss) == IF ss = <<>> THEN <<>> ELSE Head(ss) \o Flatten(Tail(ss))

Bodies == { Flatten(cs) : cs \in UNION { [1..n -> ChunkSet] : n \in 0..MaxChunks } }

\* Deviation of the declared FORM size from the true one.
SizeDeltas == {-2, 8}

Container(form, size, type, body) == form \o BEWord(size) \o type \o body

CutTail(f, c) == SubSeq(f, 1, Max(Len(f) - c, 0))

ShortBodies == ChunkSet \cup {<<>>}

\* Files of at most one chunk: well-formed, cut short, with a wrong FORM size,
\* with a wrong FORM or type tag, or too short to hold a header.
ShortFiles ==
    { CutTail(Container(tagFORM, 4 + Len(b), tagCTLG, b), c) :
          b \in ShortBodies, c \in 0..MaxCut }
    \cup { Container(tagFORM, 4 + Len(b) + d, tagCTLG, b) :
          b \in ShortBodies, d \in SizeDeltas }
    \cup { Container(tagRIFF, 4 + Len(b), tagCTLG, b) : b \in ShortBodies }
    \cup { Container(tagFORM, 4 + Len(b), tagILBM, b) : b \in ShortBodies }
    \cup { <<>>, SubSeq(tagFORM, 1, 2), tagFORM \o BEWord(4) }

Files ==
    ShortFiles
    \cup { CutTail(Container(tagFORM, 4 + Len(b), tagCTLG, b), c) :
          b \in Bodies, c \in 0..MaxCut }

\* What may lie at candidate path c.  ReadFromFile does not know which
\* candidate it reads, so the long files are tried at the first path only.
FilesAt(c) == IF c = 1 THEN Files ELSE ShortFiles

\* Statuses.  BFile::InitCheck() of a path that cannot be opened:
OpenErrors == {"B_ENTRY_NOT_FOUND"}

----------------------------------------------------------------------------
(* Strings *)

HasNul(bytes) == \E i \in 1..Len(bytes) : bytes[i] = 0

FirstNul(bytes) == CHOOSE i \in 1..Len(bytes) :
                       bytes[i] = 0 /\ \A j \in 1..(i - 1) : bytes[j] # 0

\* The C string found at the start of a buffer whose initialized part is
\* `known`: it ends at the first NUL; when the known bytes hold none, the
\* string runs on into memory that was never written, whose next byte is g.
CString(known, g) ==
    IF HasNul(known) THEN SubSeq(known, 1, FirstNul(known) - 1)
    ELSE IF g = 0 THEN known
    ELSE Append(known, g)

\* convert_to_utf8(B_ISO1_CONVERSION, ...): a Latin-1 byte below 128 maps to
\* itself, any other to two bytes.
RECURSIVE Utf8(_)
Utf8(bytes) ==
    IF bytes = <<>> THEN <<>>
    ELSE LET b == Head(bytes) IN
         (IF b < 128 THEN <<b>> ELSE <<192 + (b \div 64), 128 + (b % 64)>>)
             \o Utf8(Tail(bytes))

\* HashMapCatalog::ComputeFingerprint(): the sum of the keys' hash values,
\* the hash of an id-key being the id; a key set twice is one map entry.
RECURSIVE SumSet(_)
SumSet(S) == IF S = {} THEN 0
             ELSE LET x == CHOOSE y \in S : TRUE IN x + SumSet(S \ {x})

ComputeFingerprint(log) == SumSet({ log[i].id : i \in 1..Len(log) })

\* What the last pass of the chunk loop and of the STRS loop did.  `whole`:
\* the stream held the 8 header bytes and all the bytes the size asks for.
NoChunk == [tag |-> <<>>, decl |-> 0, size |-> 0, readLen |-> 0, start |-> 0,
            consumed |-> 0, whole |-> FALSE, before |-> 0, after |-> 0,
            done |-> FALSE, cand |-> 0]
NoEntry == [decl |-> 0, aligned |-> 0, readLen |-> 0, consumed |-> 0,
            whole |-> FALSE, start |-> 0, textLen |-> 0, marker |-> FALSE,
            inspected |-> FALSE, room |-> 0, from |-> 0, upto |-> 0,
            logical |-> 0, cand |-> 0]

----------------------------------------------------------------------------
(* Construction *)

\* The fingerprint handed to the constructor (HashMapCatalog keeps it).
ExpectedFingerprints == {99}

Init ==
    /\ cpc = "app"
    /\ rpc = "idle"
    /\ cand = 0
    /\ attempted = <<>>
    /\ statuses = <<>>
    /\ status = "none"
    /\ file = <<>>
    /\ pos = 0
    /\ dataSize = 0
    /\ declSize = 0
    /\ chunkSize = 0
    /\ chunkData = <<>>
    /\ chunkNull = FALSE
    /\ spos = 0
    /\ iter = 0
    /\ siter = 0
    /\ setLog = <<>>
    /\ fPath = 0
    /\ fFingerprint \in ExpectedFingerprints
    /\ fpLog = <<>>
    /\ fSignature = <<97, 112, 112>>
    /\ fLanguageName = <<100, 101>>
    /\ fInitCheck = "B_NO_INIT"
    /\ result = "pending"
    /\ lastChunk = NoChunk
    /\ lastEntry = NoEntry
    /\ shortRead = FALSE

readerVars == <<file, pos, dataSize, declSize, chunkSize, chunkData, chunkNull,
                spos, iter, siter, lastChunk, lastEntry, shortRead>>
catalogVars == <<setLog, fPath, fFingerprint, fpLog, fSignature, fLanguageName>>

\* The constructor hands candidate c to ReadFromFile.
Call(c) ==
    /\ cand' = c
    /\ attempted' = Append(attempted, c)
    /\ rpc' = "open"
    /\ cpc' = "reading"

\* Where the constructor goes on after the read of candidate c returned.
AfterCandidate(c) == IF c = 1 THEN "user" ELSE IF c = 2 THEN "system" ELSE "finish"

\* ReadFromFile returns st to the constructor, at source line `line`.
Return(st, line) ==
    /\ status' = st
    /\ statuses' = Append(statuses, [cand |-> cand, st |-> st, line |-> line])
    /\ rpc' = "idle"
    /\ cpc' = AfterCandidate(cand)

\* status_t status = ReadFromFile(dirName.String());
TryAppLocal ==
    /\ cpc = "app"
    /\ Call(1)
    /\ UNCHANGED <<statuses, status, fInitCheck, result>>
    /\ UNCHANGED readerVars
    /\ UNCHANGED catalogVars

\* Mutant: the next candidate is read whatever the earlier one returned.
ShouldTryAlways(st, found) == found

\* if (status != B_OK) { ... if (path.InitCheck() == B_OK) { ... ReadFromFile
ShouldTry(st, found) == st # "B_OK" /\ found

\* if (status != B_OK) { find_directory(B_USER_ETC_DIRECTORY ...) ... }
TryUser ==
    /\ cpc = "user"
    /\ \E found \in BOOLEAN :
         IF ShouldTry(status, found)
         THEN Call(2)
         ELSE /\ cpc' = "system"
              /\ UNCHANGED <<cand, attempted, rpc>>
    /\ UNCHANGED <<statuses, status, fInitCheck, result>>
    /\ UNCHANGED readerVars
    /\ UNCHANGED catalogVars

\* if (status != B_OK) { find_directory(B_SYSTEM_ETC_DIRECTORY ...) ... }
TrySystem ==
    /\ cpc = "system"
    /\ \E found \in BOOLEAN :
         IF ShouldTry(status, found)
         THEN Call(3)
         ELSE /\ cpc' = "finish"
              /\ UNCHANGED <<cand, attempted, rpc>>
    /\ UNCHANGED <<statuses, status, fInitCheck, result>>
    /\ UNCHANGED readerVars
    /\ UNCHANGED catalogVars

\* fInitCheck = status;
SetInitCheck ==
    /\ cpc = "finish"
    /\ fInitCheck' = status
    /\ cpc' = "instantiate"
    /\ UNCHANGED <<rpc, cand, attempted, statuses, status, result>>
    /\ UNCHANGED readerVars
    /\ UNCHANGED catalogVars

\* Mutant: the catalog is handed out without looking at InitCheck().
InstantiateResultUnchecked(initCheck) == "catalog"

\* if (catalog && catalog->InitCheck() != B_OK) { delete catalog; return NULL; }
InstantiateResult(initCheck) == IF initCheck # "B_OK" THEN "NULL" ELSE "catalog"

Instantiate ==
    /\ cpc = "instantiate"
    /\ result' = InstantiateResult(fInitCheck)
    /\ cpc' = "done"
    /\ UNCHANGED <<rpc, cand, attempted, statuses, status, fInitCheck>>
    /\ UNCHANGED readerVars
    /\ UNCHANGED catalogVars

----------------------------------------------------------------------------
(* ReadFromFile *)

\* BFile source(path, B_READ_ONLY); if (source.InitCheck() != B_OK) return ...
Open ==
    /\ rpc = "open"
    /\ \/ \E e \in OpenErrors :
            /\ Return(e, 151)
            /\ UNCHANGED <<file, pos, shortRead>>
       \/ \E f \in FilesAt(cand) :
            /\ file' = f
            /\ pos' = 0
            /\ shortRead' = FALSE
            /\ rpc' = "header"
            /\ UNCHANGED <<cpc, status, statuses>>
    /\ UNCHANGED <<cand, attempted, fInitCheck, result>>
    /\ UNCHANGED <<dataSize, declSize, chunkSize, chunkData, chunkNull, spos,
                   iter, siter, lastChunk, lastEntry>>
    /\ UNCHANGED catalogVars

\* Mutant: the form type is not tested.
HeaderCheckNoType(formWord, typeWord) ==
    IF Ntohl(formWord) # Ntohl(tagFORM) THEN [st |-> "B_BAD_DATA", line |-> 158]
    ELSE [st |-> "B_OK", line |-> 0]

\* The two tag tests of the header: the status returned and the line of the
\* return statement (0: the header is accepted).
HeaderCheck(formWord, typeWord) ==
    IF Ntohl(formWord) # Ntohl(tagFORM) THEN [st |-> "B_BAD_DATA", line |-> 158]
    ELSE IF Ntohl(typeWord) # Ntohl(tagCTLG) THEN [st |-> "B_BAD_DATA", line |-> 165]
    ELSE [st |-> "B_OK", line |-> 0]

\* The three header reads, the two tag tests and "dataSize -= 4".
ReadHeader ==
    /\ rpc = "header"
    /\ \E g \in GarbageBytes :
         LET formGot == ReadAt(file, 0, 4)
             p1      == Len(formGot)
             sizeGot == ReadAt(file, p1, 4)
             p2      == p1 + Len(sizeGot)
             typeGot == ReadAt(file, p2, 4)
             p3      == p2 + Len(typeGot)
             formWord == FillWord(formGot, g)
             sizeWord == FillWord(sizeGot, g)
             typeWord == FillWord(typeGot, g)
             chk      == HeaderCheck(formWord, typeWord)
         IN  IF chk.line # 0
             THEN /\ Return(chk.st, chk.line)
                  /\ pos' = IF chk.line = 158 THEN p1 ELSE p3
                  /\ UNCHANGED <<dataSize, iter, shortRead>>
             ELSE /\ dataSize' = Ntohl(sizeWord) - 4
                  /\ shortRead' = (Len(sizeGot) = 4
                                    /\ Ntohl(sizeWord) > Len(file) - p2)
                  /\ pos' = p3
                  /\ iter' = 0
                  /\ rpc' = "loop"
                  /\ UNCHANGED <<cpc, status, statuses>>
    /\ UNCHANGED <<cand, attempted, fInitCheck, result, file>>
    /\ UNCHANGED <<declSize, chunkSize, chunkData, chunkNull, spos, siter,
                   lastChunk, lastEntry>>
    /\ UNCHANGED catalogVars

\* dataSize -= chunkSize + 8;  (int32; with the files and garbage bytes of this
\* model every size and budget stays far inside the int32 range, see
\* Int32Range, so no wrap-around is taken)
Budget(budget, size) == budget - (size + 8)

\* One pass of while (dataSize > 0): the chunk header, "round to word", the
\* payload read and the dispatch on the tag.  A STRS chunk hands over to the
\* STRS loop; every other chunk also ends the pass.
ReadChunk ==
    /\ rpc = "loop"
    /\ dataSize > 0
    /\ iter < MaxIter
    /\ \E g \in GarbageBytes :
         LET idGot   == ReadAt(file, pos, 4)
             p1      == pos + Len(idGot)
             szGot   == ReadAt(file, p1, 4)
             p2      == p1 + Len(szGot)
             chunkID == FillWord(idGot, g)
             decl    == Ntohl(FillWord(szGot, g))
             size    == RoundToWord(decl)
             \* BStackOrHeapArray<char, 256> chunkData(chunkSize): a negative
             \* size is a request no allocator grants, the array is NULL and
             \* the read into it delivers nothing.
             null    == size < 0
             data    == IF null THEN <<>> ELSE ReadAt(file, p2, size)
             p3      == p2 + Len(data)
             text    == IF null THEN <<>> ELSE CString(data, g)
             isStrs  == Ntohl(chunkID) = Ntohl(tagSTRS)
         IN  /\ pos' = p3
             /\ declSize' = decl
             /\ chunkSize' = size
             /\ chunkData' = data
             /\ chunkNull' = null
             /\ fSignature' = IF Ntohl(chunkID) = Ntohl(tagFVER)
                              THEN text ELSE fSignature
             /\ fLanguageName' = IF Ntohl(chunkID) = Ntohl(tagLANG)
                                 THEN text ELSE fLanguageName
             /\ shortRead' = (shortRead \/ size > Len(file) - p2)
             /\ lastChunk' = [tag |-> chunkID, decl |-> decl, size |-> size,
                              readLen |-> size, start |-> pos,
                              consumed |-> p3 - pos,
                              whole |-> (p2 = pos + 8 /\ size <= Len(file) - p2),
                              before |-> dataSize,
                              after |-> IF isStrs THEN dataSize
                                        ELSE Budget(dataSize, size),
                              done |-> ~isStrs, cand |-> cand]
             /\ IF isStrs
                THEN /\ rpc' = "strs"
                     /\ spos' = 0
                     /\ siter' = 0
                     /\ UNCHANGED <<dataSize, iter>>
                ELSE /\ dataSize' = Budget(dataSize, size)
                     /\ iter' = iter + 1
                     /\ UNCHANGED <<rpc, spos, siter>>
    /\ UNCHANGED <<cpc, cand, attempted, statuses, status, fInitCheck, result,
                   file, lastEntry>>
    /\ UNCHANGED <<setLog, fPath, fFingerprint, fpLog>>

\* if (strBase[1] == 0) { strLen -= 2; strVal += 2; }
MenuMarker(byte1) == byte1 = 0
TextStart(byte1) == IF MenuMarker(byte1) THEN 2 ELSE 0
TextLen(aligned, byte1) == IF MenuMarker(byte1) THEN aligned - 2 ELSE aligned

\* if (outLen > strLen) SetString(strID, outVal); else SetString(strID, strVal);
\* `src` are the initialized bytes at strVal, `len` the length handed to the
\* conversion, g the value of whatever lies behind the initialized bytes.
EntryText(src, len, g) ==
    LET conv    == SubSeq(src, 1, Min(Max(len, 0), Len(src)))
        high    == (\E i \in 1..Len(conv) : conv[i] >= 128)
                   \/ ((len < 0 \/ len > Len(src)) /\ g >= 128)
    IN  IF high THEN CString(Utf8(conv), g) ELSE CString(src, g)

\* One pass of while (strings.Position() < chunkSize).
ReadString ==
    /\ rpc = "strs"
    /\ spos < chunkSize
    /\ siter < MaxIter
    /\ \E g \in GarbageBytes, crash \in BOOLEAN :
         LET room(p)  == Max(chunkSize - p, 0)
             k1       == Min(4, room(spos))
             p1       == spos + k1
             k2       == Min(4, room(p1))
             p2       == p1 + k2
             idGot    == ReadAt(chunkData, spos, k1)
             lenGot   == ReadAt(chunkData, p1, k2)
             strID    == Ntohl(FillWord(idGot, g))
             decl     == Ntohl(FillWord(lenGot, g))
             aligned  == AlignLen(decl)
             \* strings.Read(strBase, strLen): a negative int32 length is a
             \* huge size_t, and the read delivers all that is left.
             k3       == IF aligned < 0 THEN room(p2) ELSE Min(aligned, room(p2))
             p3       == p2 + k3
             known    == ReadAt(chunkData, p2, k3)
             byte1    == IF Len(known) >= 2 THEN known[2] ELSE g
             start    == TextStart(byte1)
             len      == TextLen(aligned, byte1)
             src      == SubSeq(known, start + 1, Len(known))
             text     == EntryText(src, len, g)
         IN  IF aligned < 0 /\ crash
             THEN \* char strBase[strLen] with a negative length, then a read
                  \* of everything left into it: the process may die here.
                  /\ rpc' = "crashed"
                  /\ UNCHANGED <<spos, siter, setLog, lastEntry, shortRead>>
             ELSE /\ spos' = p3
                  /\ siter' = siter + 1
                  /\ setLog' = Append(setLog,
                                  [cand |-> cand, id |-> strID, text |-> text])
                  /\ lastEntry' = [decl |-> decl, aligned |-> aligned,
                                   readLen |-> aligned, consumed |-> k3,
                                   whole |-> (p2 = spos + 8 /\ aligned <= room(p2)),
                                   start |-> start, textLen |-> len,
                                   marker |-> MenuMarker(byte1),
                                   inspected |-> TRUE, room |-> aligned,
                                   from |-> spos, upto |-> p3,
                                   logical |-> declSize, cand |-> cand]
                  /\ shortRead' = (shortRead \/ aligned > room(p2))
                  /\ UNCHANGED rpc
    /\ UNCHANGED <<cpc, cand, attempted, statuses, status, fInitCheck, result>>
    /\ UNCHANGED <<file, pos, dataSize, declSize, chunkSize, chunkData,
                   chunkNull, iter, lastChunk>>
    /\ UNCHANGED <<fPath, fFingerprint, fpLog, fSignature, fLanguageName>>

\* The STRS loop is left: break; dataSize -= chunkSize + 8;
EndStrings ==
    /\ rpc = "strs"
    /\ ~(spos < chunkSize)
    /\ dataSize' = Budget(dataSize, chunkSize)
    /\ iter' = iter + 1
    /\ lastChunk' = [lastChunk EXCEPT !.after = Budget(dataSize, chunkSize),
                                       !.done = TRUE]
    /\ rpc' = "loop"
    /\ UNCHANGED <<cpc, cand, attempted, statuses, status, fInitCheck, result>>
    /\ UNCHANGED <<file, pos, declSize, chunkSize, chunkData, chunkNull, spos,
                   siter, lastEntry, shortRead>>
    /\ UNCHANGED catalogVars

\* The chunk loop is left: fPath = path; fFingerprint = ComputeFingerprint();
\* return B_OK;
LoopExit(budget) == ~(budget > 0)

\* Mutant: a budget that went negative is refused after the chunks were read.
ExitStatusChecked(budget) == IF budget < 0 THEN "B_BAD_DATA" ELSE "B_OK"

\* return B_OK; (the value of the budget the loop was left with is not tested)
ExitStatus(budget) == "B_OK"

Finish ==
    /\ rpc = "loop"
    /\ LoopExit(dataSize)
    /\ fPath' = cand
    /\ fFingerprint' = ComputeFingerprint(setLog)
    /\ fpLog' = Append(fpLog, [cand |-> cand, entries |-> Len(setLog),
                               budget |-> dataSize])
    /\ Return(ExitStatus(dataSize), 243)
    /\ UNCHANGED <<cand, attempted, fInitCheck, result>>
    /\ UNCHANGED readerVars
    /\ UNCHANGED <<setLog, fSignature, fLanguageName>>

----------------------------------------------------------------------------

Next ==
    \/ TryAppLocal
    \/ TryUser
    \/ TrySystem
    \/ SetInitCheck
    \/ Instantiate
    \/ Open
    \/ ReadHeader
    \/ ReadChunk
    \/ ReadString
    \/ EndStrings
    \/ Finish

Spec == Init /\ [][Next]_vars

----------------------------------------------------------------------------
(* Properties *)

\* The int32 values of the model never come near the limits of their type.
Int32Range ==
    /\ dataSize \in -1000000000..1000000000
    /\ chunkSize \in -1000000000..1000000000
    /\ lastEntry.aligned \in -1000000000..1000000000

Attempts == 1..Len(statuses)
Failed(i) == statuses[i].st # "B_OK"
AllFailed == \A i \in Attempts : Failed(i)
Constructed == cpc \in {"instantiate", "done"}

\* C1: the candidates are read in the order app, user, system; a candidate is
\* read only after every earlier read failed; after the first successful read
\* no other candidate is read and the init status is success.
C1_OrderedFallback ==
    /\ \A i \in 1..Len(attempted) :
          /\ (i = 1 => attempted[i] = 1)
          /\ (i > 1 => attempted[i] > attempted[i - 1])
          /\ \A j \in 1..(i - 1) : j \in Attempts /\ Failed(j)
    /\ \A i \in Attempts :
          ~Failed(i) => /\ i = Len(attempted)
                        /\ status = "B_OK"
                        /\ (Constructed => fInitCheck = "B_OK")

\* C1 witness: the app-local file is refused, the user-level file decodes, the
\* system-level one is never read and construction ends with success.
C1_Witness ==
    /\ cpc = "done"
    /\ attempted = <<1, 2>>
    /\ statuses[1].st = "B_BAD_DATA"
    /\ statuses[2].st = "B_OK"
    /\ fInitCheck = "B_OK"

\* C2: when every candidate failed, InitCheck is the status returned for the
\* last candidate that was read, and Instantiate returns NULL.
C2_AllFailed ==
    (Constructed /\ AllFailed) =>
        /\ fInitCheck = statuses[Len(statuses)].st
        /\ (cpc = "done" => result = "NULL")

\* C2 witness: three failed reads whose first and last status differ.
C2_Witness ==
    /\ cpc = "done"
    /\ Len(statuses) = 3
    /\ AllFailed
    /\ statuses[1].st # statuses[3].st
    /\ result = "NULL"

\* C3: a decode attempt in which a declared size (FORM size, padded chunk size,
\* aligned string length) exceeded the bytes left does not end with success.
C3_TruncatedRejected ==
    (rpc = "idle" /\ status = "B_OK") => ~shortRead

\* C4: every pass of the chunk loop lowers the remaining budget, every pass of
\* the STRS loop advances the sub-stream position, and no read is issued with
\* a negative length.  The passes looked at are those whose chunk or entry the
\* stream holds in full, so that no size comes from uninitialized memory.
C4_BudgetDecreases ==
    [][ /\ (iter' = iter + 1 /\ lastChunk'.whole => dataSize' < dataSize)
        /\ (siter' = siter + 1 => spos' > spos)
        /\ (lastChunk'.whole => lastChunk'.readLen >= 0)
        /\ (lastEntry'.whole => lastEntry'.readLen >= 0) ]_vars

\* C5: the chunk loop ends with success only with a remaining budget of
\* exactly zero.
C5_ExactBudget ==
    \A i \in 1..Len(fpLog) : fpLog[i].budget = 0

HasForm(f) == Len(f) >= 4 /\ SubSeq(f, 1, 4) = tagFORM
BadForm(f) == Len(f) >= 4 /\ SubSeq(f, 1, 4) # tagFORM
BadType(f) == HasForm(f) /\ Len(f) >= 12 /\ SubSeq(f, 9, 12) # tagCTLG

C7_AllOrNothing ==
    /\ \A i \in Attempts :
          Failed(i) => \A k \in 1..Len(setLog) : setLog[k].cand # statuses[i].cand
    /\ (cpc = "done" /\ AllFailed) => setLog = <<>>
    /\ (cpc = "done" /\ ~AllFailed) =>
          \A k \in 1..Len(setLog) :
              /\ setLog[k].cand = statuses[Len(statuses)].cand
              /\ ~Failed(Len(statuses))

\* C7 witness: a refused file, then a file whose strings were pushed.
C7_Witness ==
    /\ cpc = "done"
    /\ Len(statuses) = 2
    /\ Failed(1)
    /\ ~Failed(2)
    /\ Len(setLog) >= 2

ReturnsNow == Len(statuses') = Len(statuses) + 1
Returned == statuses'[Len(statuses')]

\* C8: the fingerprint and the stored path change only in the step that ends a
\* decode attempt with success, after which no further string is pushed; a
\* decode attempt that returns an error leaves both unchanged.
C8_FingerprintOnSuccess ==
    [][ /\ (fFingerprint' # fFingerprint \/ fPath' # fPath \/ fpLog' # fpLog) =>
              /\ ReturnsNow
              /\ Returned.st = "B_OK"
              /\ setLog' = setLog
        /\ (ReturnsNow /\ Returned.st # "B_OK") =>
              /\ fFingerprint' = fFingerprint
              /\ fPath' = fPath
              /\ fpLog' = fpLog
        /\ \A i \in 1..Len(fpLog') : fpLog'[i].entries = Len(setLog') ]_vars

\* C8 witness: an attempt failed, the next one succeeded and replaced the
\* fingerprint and the path.
C8_Witness ==
    /\ Len(statuses) = 2
    /\ Failed(1)
    /\ ~Failed(2)
    /\ fPath = 2
    /\ fFingerprint # 99
    /\ Len(setLog) >= 1

\* C9: a chunk of declared size d >= 0 that the stream holds in full takes
\* 8 + d + (d mod 2) bytes from the stream and from the budget and ends at an
\* even offset, and the STRS loop reads nothing behind the logical length d.
C9_ChunkConsumption ==
    /\ (lastChunk.done /\ lastChunk.decl >= 0 /\ lastChunk.whole) =>
          /\ lastChunk.consumed = 8 + lastChunk.decl + (lastChunk.decl % 2)
          /\ lastChunk.before - lastChunk.after = lastChunk.consumed
          /\ (lastChunk.start + lastChunk.consumed) % 2 = 0
    /\ (lastEntry.cand # 0 /\ lastEntry.logical >= 0 /\ lastChunk.whole) =>
          lastEntry.upto <= lastEntry.logical

\* C10: the declared length is rounded up to a multiple of 4 and that many
\* payload bytes are taken; a zero at offset 1 moves the text start by 2 and
\* shortens the text by 2; the text length is never negative and offset 1 is
\* looked at only when the payload has at least 2 bytes.  The entries looked
\* at are those the stream holds in full.
C10_StringEntry ==
    (lastEntry.cand # 0 /\ lastEntry.decl >= 0 /\ lastEntry.whole
         /\ lastChunk.whole) =>
        /\ lastEntry.aligned = ((lastEntry.decl + 3) \div 4) * 4
        /\ lastEntry.consumed = lastEntry.aligned
        /\ lastEntry.start = (IF lastEntry.marker THEN 2 ELSE 0)
        /\ lastEntry.textLen = lastEntry.aligned - lastEntry.start
        /\ lastEntry.textLen >= 0
        /\ (lastEntry.inspected => lastEntry.room >= 2)

====
